---- MODULE Spec2Model ----
(***************************************************************************)
(* State-machine model of the achievement / anonymous-identity core of     *)
(* server.js: the identity middleware, computeAchievementsEarned, and the  *)
(* handlers GET /api/data, PUT /api/data, POST /api/link-wallet,           *)
(* POST /api/disconnect-wallet and POST /api/mint-achievement, over one     *)
(* MongoDB collection ("appdata").                                         *)
(*                                                                         *)
(* A handler suspends only at its awaits (findOne, updateOne, mintNft), so *)
(* each action is the code that runs from one await to the next.           *)
(*                                                                         *)
(* Optional JavaScript values are sequences of length 0 or 1:              *)
(*   <<>>  is undefined / null / a missing field,  <<v>>  is the value v.  *)
(***************************************************************************)
EXTENDS Integers, Sequences, FiniteSets, TLC

VARIABLES
  connected,    \* the module-level `db` handle is non-null
  mintBackend,  \* environment: "no_keypair", "no_handler" or "ok"
  appdata,      \* the collection: identity -> document
  issued,       \* tokens crypto.randomUUID() has returned so far
  ctx,          \* per in-flight request: position and local variables
  sent,         \* the HTTP response the last step wrote, until it is delivered
  verified,     \* history: <<identity, publicKey>> whose signature verified
  mintLog,      \* history: <<identity, achievementId>> whose mintNft resolved
  lastGet,      \* history: the last response delivered, when it is a GET
                \* answered 200 and only GETs have been handled since
  forged,       \* environment: cookie values clients make up themselves
  probe         \* a direct call of computeAchievementsEarned: its arguments
                \* and, once it returned, its result

vars ==
  <<connected, mintBackend, appdata, issued, ctx, sent, verified, mintLog,
    lastGet, forged, probe>>

Absent == <<>>
Some(v) == <<v>>

\* seq.includes(x)
Includes(seq, x) == \E i \in DOMAIN seq : seq[i] = x

\* the elements of a sequence
Range(seq) == {seq[i] : i \in DOMAIN seq}

(***************************************************************************)
(* The achievement catalog and computeAchievementsEarned.                  *)
(***************************************************************************)
ACHIEVEMENTS ==
  << "first_food", "first_activity", "streak_3", "streak_7",
     "ten_activities", "protein_goal_5", "calorie_goal_5", "activity_goal_5" >>

DefaultCalorieGoal == 2000
DefaultProteinGoal == 50
DefaultActivityGoal == 30

\* goals?.<key> ?? dflt : goals is <<>> (null/undefined) or <<g>>, g a
\* function from the field names present to numbers
GoalOr(goals, key, dflt) ==
  IF goals = Absent THEN dflt
  ELSE IF key \in DOMAIN goals[1] THEN goals[1][key] ELSE dflt

\* (m[d]?.length || 0)
EntryCount(m, d) == IF d \in DOMAIN m THEN Len(m[d]) ELSE 0

RECURSIVE SumOver_largest(_, _, _)
\* mutant: the reduce keeps the largest per-date count instead of the sum
SumOver_largest(keys, f, acc) ==
  IF keys = {} THEN acc
  ELSE LET d == CHOOSE k \in keys : TRUE
       IN  SumOver_largest(keys \ {d}, f, IF f[d] > acc THEN f[d] ELSE acc)

RECURSIVE SumOver(_, _, _)
\* keys.reduce((sum, d) => sum + f(d), 0), f given as a function on keys
SumOver(keys, f, acc) ==
  IF keys = {} THEN acc
  ELSE LET d == CHOOSE k \in keys : TRUE
       IN  SumOver(keys \ {d}, f, acc + f[d])

RECURSIVE SumField(_, _)
\* entries.reduce((s, e) => s + (Number(e.field) || 0), 0); entries here
\* carry numbers, on which Number(x) || 0 is x
SumField(entries, field) ==
  IF entries = <<>> THEN 0
  ELSE entries[1][field] + SumField(Tail(entries), field)

\* Array.from(new Set([...keys(diet), ...keys(activity)])).sort(); date keys
\* are day numbers, whose order is the string order of ISO dates
getOrderedDates(diet, activity) ==
  SortSeq(
    LET all == DOMAIN diet \cup DOMAIN activity
        RECURSIVE ToSeq(_)
        ToSeq(S) == IF S = {} THEN <<>>
                    ELSE LET x == CHOOSE y \in S : TRUE
                         IN  <<x>> \o ToSeq(S \ {x})
    IN  ToSeq(all),
    LAMBDA a, b : a < b)

RECURSIVE StreakFrom(_, _, _, _)
\* the loop  for (i = length-1; i >= 0; i--) { if (hasFood || hasActivity)
\* streak++; else break; }  started at index i
StreakFrom(sortedDates, i, diet, activity) ==
  IF i = 0 THEN 0
  ELSE LET d == sortedDates[i]
           hasFood == EntryCount(diet, d) > 0
           hasActivity == EntryCount(activity, d) > 0
       IN  IF hasFood \/ hasActivity
           THEN 1 + StreakFrom(sortedDates, i - 1, diet, activity)
           ELSE 0

StreakThreshold3 == 3
StreakThreshold7 == 7
TenActivities == 10
GoalDays == 5

\* mutant: a streak achievement is earned at exactly its threshold
EarnsStreak_exactly(streak, threshold) == streak = threshold

\* if (streak >= 3) ..., if (streak >= 7) ...
EarnsStreak(streak, threshold) == streak >= threshold

\* the streak counted by computeAchievementsEarned
Streak(diet, activity) ==
  LET sortedDates == getOrderedDates(diet, activity)
  IN  StreakFrom(sortedDates, Len(sortedDates), diet, activity)

\* calories >= calorieGoal * 0.9 && calories <= calorieGoal * 1.1, in tenths
CalorieHit(calories, calorieGoal) ==
  /\ calories * 10 >= calorieGoal * 9
  /\ calories * 10 <= calorieGoal * 11

\* the counters of the two per-day loops
ProteinDays(diet, proteinGoal) ==
  Cardinality({d \in DOMAIN diet : SumField(diet[d], "protein") >= proteinGoal})

CalorieDays(diet, calorieGoal) ==
  Cardinality({d \in DOMAIN diet :
                 CalorieHit(SumField(diet[d], "calories"), calorieGoal)})

ActivityMinutesDays(activity, activityGoal) ==
  Cardinality({d \in DOMAIN activity :
                 SumField(activity[d], "duration") >= activityGoal})

\* the `earned` array, in push order (each id is pushed at most once)
computeAchievementsEarned(diet, activity, goals) ==
  LET calorieGoal == GoalOr(goals, "calorieGoal", DefaultCalorieGoal)
      proteinGoal == GoalOr(goals, "proteinGoal", DefaultProteinGoal)
      activityGoal == GoalOr(goals, "activityGoal", DefaultActivityGoal)
      totalFoodEntries ==
        SumOver(DOMAIN diet, [d \in DOMAIN diet |-> Len(diet[d])], 0)
      totalActivitySessions ==
        SumOver(DOMAIN activity, [d \in DOMAIN activity |-> Len(activity[d])], 0)
      streak == Streak(diet, activity)
      push(c, id) == IF c THEN <<id>> ELSE <<>>
  IN  push(totalFoodEntries > 0, "first_food")
      \o push(totalActivitySessions > 0, "first_activity")
      \o push(totalActivitySessions >= TenActivities, "ten_activities")
      \o push(EarnsStreak(streak, StreakThreshold3), "streak_3")
      \o push(EarnsStreak(streak, StreakThreshold7), "streak_7")
      \o push(ProteinDays(diet, proteinGoal) >= GoalDays, "protein_goal_5")
      \o push(CalorieDays(diet, calorieGoal) >= GoalDays, "calorie_goal_5")
      \o push(ActivityMinutesDays(activity, activityGoal) >= GoalDays,
              "activity_goal_5")

(***************************************************************************)
(* Documents of the collection, request inputs.                            *)
(***************************************************************************)
Slots == {"r1", "r2"}

\* what crypto.randomUUID() can return
UUIDPool == {"u1"}

NoDoc ==
  [ exists |-> FALSE, diet |-> Absent, activity |-> Absent, goals |-> Absent,
    goalStory |-> Absent, walletAddress |-> Absent,
    achievementsEarned |-> Absent, achievementsMinted |-> Absent,
    updatedAt |-> Absent ]

\* new Date()
Now == "now"

\* doc?.field || dflt  (also doc?.field ?? dflt: no stored value here is falsy
\* except the ones whose default is the same value)
FieldOr(field, dflt) == IF field = Absent THEN dflt ELSE field[1]

EmptyMap == <<>>
JsNull == <<>>

Food(calories, protein) == [calories |-> calories, protein |-> protein]
Session(duration) == [duration |-> duration]

\* request bodies of PUT /api/data; a field the body omits is Absent
BodyGoalsOnly ==
  [ diet |-> Absent, activity |-> Absent,
    goals |-> Some(Some([calorieGoal |-> 500, proteinGoal |-> 60])),
    goalStory |-> Absent, walletAddress |-> Absent,
    achievementsEarned |-> Absent, achievementsMinted |-> Absent ]

BodyFood ==
  [ diet |-> Some([d \in {1} |-> <<Food(500, 60)>>]),
    activity |-> Absent, goals |-> Absent, goalStory |-> Some("run more"),
    walletAddress |-> Absent,
    achievementsEarned |-> Absent, achievementsMinted |-> Absent ]

BodyBoth ==
  [ diet |-> Some([d \in {1} |-> <<Food(500, 60)>>]),
    activity |-> Some([d \in {1} |-> <<Session(45)>>]),
    goals |-> Some(JsNull), goalStory |-> Some(""),
    walletAddress |-> Absent,
    achievementsEarned |-> Absent, achievementsMinted |-> Absent ]

\* a body that also carries fields the handler does not destructure
BodyWithOtherFields ==
  [ BodyGoalsOnly EXCEPT !.walletAddress = Some("pkB"),
                         !.achievementsEarned = Some(<<"streak_7">>),
                         !.achievementsMinted = Some(<<"streak_7">>) ]

Bodies == {BodyGoalsOnly, BodyFood, BodyBoth, BodyWithOtherFields}

\* achievementId of a mint request: missing, two catalog ids, one unknown id
AchievementInputs ==
  {Absent, Some("first_food"), Some("first_activity"), Some("gold_medal")}

SignatureLength == 64

\* the bytes new PublicKey(s).toBytes() returns, <<>> when the constructor
\* throws
PublicKeyBytes(s) ==
  IF s = "pkA" THEN Some(11) ELSE IF s = "pkB" THEN Some(22) ELSE Absent

\* a decoded signature: its length, and the key and message it was made with
Sig(len, key, msg) == [len |-> len, key |-> key, msg |-> msg]

Message == "link my wallet"
SigA == Sig(SignatureLength, 11, Message)
SigOther == Sig(SignatureLength, 33, Message)
SigShort == Sig(SignatureLength - 1, 11, Message)

\* bodies of link requests: a field the body omits is Absent.  pkA and pkB
\* are keys, "not-a-key" is a string new PublicKey() rejects; the client holds
\* the secret key of pkA only
LinkInputs ==
  { [publicKey |-> Absent, message |-> Some(Message), signature |-> Some(SigA)],
    [publicKey |-> Some("pkA"), message |-> Absent, signature |-> Some(SigA)],
    [publicKey |-> Some("pkA"), message |-> Some(Message), signature |-> Absent],
    [publicKey |-> Some("pkA"), message |-> Some(Message), signature |-> Some(SigA)],
    [publicKey |-> Some("pkA"), message |-> Some(Message), signature |-> Some(SigOther)],
    [publicKey |-> Some("pkA"), message |-> Some(Message), signature |-> Some(SigShort)],
    [publicKey |-> Some("pkB"), message |-> Some(Message), signature |-> Some(SigA)],
    [publicKey |-> Some("not-a-key"), message |-> Some(Message), signature |-> Some(SigA)],
    [publicKey |-> Some("not-a-key"), message |-> Some(Message), signature |-> Some(SigShort)] }

\* nacl.sign.detached.verify(msgBytes, sigBytes, pkBytes)
Verify(msg, sig, pkBytes) == sig.key = pkBytes /\ sig.msg = msg

(***************************************************************************)
(* getOrCreateAnonId.                                                      *)
(***************************************************************************)
\* cookie values that are not of the form randomUUID() returns
ForgedTokens == {"not-a-uuid"}

\* a token has the form of a server-issued one
WellFormed(token) == token \in UUIDPool

\* cookies a client can present: none (""), a token the server issued, or a
\* value the client made up
CookieInputs == {""} \cup issued \cup forged

\* req.anonId, given the cookie and the value randomUUID() would return
AnonIdFor(cookie, uuid) == IF cookie = "" THEN uuid ELSE cookie

\* mutant: the middleware sets the cookie on every request
SetCookieFor_always(cookie, uuid) == Some(uuid)

\* the Set-Cookie the middleware adds to the response
SetCookieFor(cookie, uuid) == IF cookie = "" THEN Some(uuid) ELSE Absent

\* requests have no identity of their own: a new one takes the first free slot
FirstIdle == IF ctx["r1"].pc = "idle" THEN "r1" ELSE "r2"

\* the middleware on a request held by slot s: the request arrives with
\* `cookie`, `uuid` is what randomUUID() returns if it is called (when it is
\* not called, uuid is not used and is fixed to one value)
Arrive(s, cookie, uuid) ==
  /\ sent = Absent
  /\ ctx[s].pc = "idle"
  /\ s = FirstIdle
  /\ cookie \in CookieInputs
  /\ IF cookie = ""
     THEN uuid \in UUIDPool \ issued /\ issued' = issued \cup {uuid}
     ELSE uuid = (CHOOSE u \in UUIDPool : TRUE) /\ UNCHANGED issued

(***************************************************************************)
(* Requests and responses.                                                 *)
(***************************************************************************)
Idle == [pc |-> "idle"]

InFlight(s) == ctx[s].pc # "idle"

\* some other request is between two of its awaits
Overlaps(s) == \E t \in Slots \ {s} : InFlight(t)

\* some other request between two of its awaits is not a GET /api/data, or
\* is a GET that itself ran alongside a request that is not a GET
OverlapsOther(s) ==
  \E t \in Slots \ {s} :
    InFlight(t) /\ (ctx[t].pc # "get_updateOne" \/ ctx[t].mixed)

\* the request of operation op in slot s takes a step and becomes c; a GET
\* waiting for its updateOne meanwhile is marked as overlapped by another
\* request (mixed: by a request that is not a GET, or by a GET so marked)
Step(op, s, c) ==
  [t \in Slots |->
     IF t = s THEN c
     ELSE IF ctx[t].pc = "get_updateOne"
     THEN [ctx[t] EXCEPT
             !.overlapped = TRUE,
             !.mixed = \/ @
                       \/ op # "GET"
                       \/ ctx[s].pc = "get_updateOne" /\ ctx[s].mixed
                       \/ c.pc = "get_updateOne" /\ c.mixed]
     ELSE ctx[t]]

\* a response, with what the request did (trace) and what it was given and
\* found in the document it loaded (about)
ResponseAbout(op, cookie, anonId, setCookie, status, error, body, trace, about) ==
  Some([ op |-> op, cookie |-> cookie, anonId |-> anonId,
         setCookie |-> setCookie,
         status |-> status, error |-> error, body |-> body,
         trace |-> trace, about |-> about ])

Response(op, cookie, anonId, setCookie, status, error, body, trace) ==
  ResponseAbout(op, cookie, anonId, setCookie, status, error, body, trace,
                Absent)

\* what a request did, for the properties: DB writes applied, collaborator
\* calls made, collaborator calls that returned
Trace(writes, mintCalls, mintOk) ==
  [writes |-> writes, mintCalls |-> mintCalls, mintOk |-> mintOk]

\* for a GET: whether another request (mixed: one that is not a GET) was
\* being handled meanwhile, what the loaded document held, and the stored
\* minted ids that its write removed from the record
GetAbout(overlapped, mixed, doc, lost) ==
  Some([ overlapped |-> overlapped, mixed |-> mixed,
         hadRecord |-> doc.exists,
         hadEarned |-> doc.achievementsEarned # Absent,
         hadMinted |-> doc.achievementsMinted # Absent,
         storedMinted |-> FieldOr(doc.achievementsMinted, <<>>),
         lost |-> lost ])

NoBody == <<>>

DbDown == "MongoDB not configured."
DbError == "db error"
MintError == "mint error"

(***************************************************************************)
(* GET /api/data.                                                          *)
(***************************************************************************)
\* mutant: the filter keeps every stored entry
PruneMinted_keepsAll(storedMinted, earned) == storedMinted

\* mutant: the filter keeps the first stored entry that is earned and drops
\* the others
PruneMinted_keepsOne(storedMinted, earned) ==
  LET kept == SelectSeq(storedMinted, LAMBDA id : Includes(earned, id))
  IN  IF kept = <<>> THEN <<>> ELSE <<kept[1]>>

\* mutant: the filter also drops the first entry it kept, so filtering a
\* filtered list changes it
PruneMinted_thenDropsFirst(storedMinted, earned) ==
  LET kept == SelectSeq(storedMinted, LAMBDA id : Includes(earned, id))
  IN  IF kept = <<>> THEN <<>> ELSE Tail(kept)

\* storedMinted.filter((id) => earnedSet.has(id))
PruneMinted(storedMinted, earned) ==
  SelectSeq(storedMinted, LAMBDA id : Includes(earned, id))

\* mutant: the handler calls updateOne on every read
NeedsReconcileWrite_always(doc, storedMinted, earned, minted) == TRUE

\* mutant: the backfill does not require a loaded document
NeedsReconcileWrite_withoutRecord(doc, storedMinted, earned, minted) ==
  \/ Len(minted) # Len(storedMinted)
  \/ \E i \in DOMAIN storedMinted : ~Includes(earned, storedMinted[i])
  \/ doc.achievementsEarned = Absent \/ doc.achievementsMinted = Absent

\* the two conditions under which the handler calls updateOne
NeedsReconcileWrite(doc, storedMinted, earned, minted) ==
  \/ Len(minted) # Len(storedMinted)
  \/ \E i \in DOMAIN storedMinted : ~Includes(earned, storedMinted[i])
  \/ /\ doc.exists
     /\ doc.achievementsEarned = Absent \/ doc.achievementsMinted = Absent

\* the earned array the handler computes from the loaded document
EarnedOfDoc(doc) ==
  computeAchievementsEarned(FieldOr(doc.diet, EmptyMap),
                            FieldOr(doc.activity, EmptyMap),
                            FieldOr(doc.goals, JsNull))

\* the JSON the handler answers with
DataBody(doc) ==
  LET earned == EarnedOfDoc(doc)
  IN  [ diet |-> FieldOr(doc.diet, EmptyMap),
        activity |-> FieldOr(doc.activity, EmptyMap),
        goals |-> FieldOr(doc.goals, JsNull),
        goalStory |-> FieldOr(doc.goalStory, ""),
        walletAddress |-> doc.walletAddress,
        achievementsEarned |-> earned,
        achievementsMinted |->
          PruneMinted(FieldOr(doc.achievementsMinted, <<>>), earned),
        achievementsMeta |-> ACHIEVEMENTS ]

\* mutant: the write leaves the stored minted list as it is
ReconcileWrite_earnedOnly(doc, earned, minted) ==
  [doc EXCEPT !.exists = TRUE,
              !.achievementsEarned = Some(earned),
              !.updatedAt = Some(Now)]

\* mutant: the write marks every earned achievement as minted
ReconcileWrite_marksEarned(doc, earned, minted) ==
  [doc EXCEPT !.exists = TRUE,
              !.achievementsEarned = Some(earned),
              !.achievementsMinted = Some(earned),
              !.updatedAt = Some(Now)]

\* mutant: the write prunes the list the record holds when it is applied,
\* not the list the handler loaded
ReconcileWrite_prunesCurrent(doc, earned, minted) ==
  [doc EXCEPT !.exists = TRUE,
              !.achievementsEarned = Some(earned),
              !.achievementsMinted =
                 Some(PruneMinted(FieldOr(doc.achievementsMinted, <<>>),
                                  earned)),
              !.updatedAt = Some(Now)]

\* updateOne({_id}, {$set: {achievementsEarned, achievementsMinted,
\* updatedAt}}, {upsert: true})
ReconcileWrite(doc, earned, minted) ==
  [doc EXCEPT !.exists = TRUE,
              !.achievementsEarned = Some(earned),
              !.achievementsMinted = Some(minted),
              !.updatedAt = Some(Now)]

\* mutant: the catch block answers with the payload computed so far
GetFailure_servesData(body) ==
  [status |-> 200, error |-> "", body |-> Some(body)]

\* catch (err): res.status(500).json({ error: err.message || ... }), for a
\* rejected findOne as for a rejected updateOne
GetFailure(body) ==
  [status |-> 500, error |-> DbError, body |-> NoBody]

\* from the request's arrival to the await of the first updateOne, or to the
\* response when there is none
GetData_findOne(s) ==
  \E cookie \in CookieInputs, uuid \in UUIDPool, ok \in BOOLEAN :
    /\ Arrive(s, cookie, uuid)
    /\ connected \/ ok            \* no DB call, no DB outcome
    /\ LET anonId == AnonIdFor(cookie, uuid)
           setCookie == SetCookieFor(cookie, uuid)
           doc == appdata[anonId]
           body == DataBody(doc)
           tr == Trace(0, 0, 0)
       IN  IF ~connected
           THEN /\ sent' = ResponseAbout("GET", cookie, anonId, setCookie, 503,
                             DbDown, NoBody, tr,
                             GetAbout(Overlaps(s), OverlapsOther(s), NoDoc, {}))
                /\ ctx' = Step("GET", s, Idle)
           ELSE IF ~ok
           THEN /\ sent' = LET f == GetFailure(DataBody(NoDoc))
                           IN  ResponseAbout("GET", cookie, anonId, setCookie,
                                 f.status, f.error, f.body, tr,
                                 GetAbout(Overlaps(s), OverlapsOther(s), NoDoc,
                                          {}))
                /\ ctx' = Step("GET", s, Idle)
           ELSE IF NeedsReconcileWrite(doc,
                     FieldOr(doc.achievementsMinted, <<>>),
                     body.achievementsEarned, body.achievementsMinted)
           THEN /\ sent' = Absent
                /\ ctx' = Step("GET", s, [ pc |-> "get_updateOne", cookie |-> cookie,
                                    anonId |-> anonId,
                                    setCookie |-> setCookie, body |-> body,
                                    doc |-> doc,
                                    overlapped |-> Overlaps(s),
                                    mixed |-> OverlapsOther(s) ])
           ELSE /\ sent' = ResponseAbout("GET", cookie, anonId, setCookie, 200, "",
                             Some(body), tr,
                             GetAbout(Overlaps(s), OverlapsOther(s), doc, {}))
                /\ ctx' = Step("GET", s, Idle)
    /\ UNCHANGED <<lastGet, forged, probe, connected, mintBackend, appdata, verified, mintLog>>

\* the awaited updateOne resolves or rejects, then the response
GetData_updateOne(s) ==
  /\ sent = Absent
  /\ ctx[s].pc = "get_updateOne"
  /\ \E ok \in BOOLEAN :
       LET c == ctx[s]
           over == c.overlapped \/ Overlaps(s)
           mixed == c.mixed \/ OverlapsOther(s)
           lost == Range(FieldOr(appdata[c.anonId].achievementsMinted, <<>>))
                     \ Range(FieldOr(appdata'[c.anonId].achievementsMinted,
                                     <<>>))
       IN  IF ok
           THEN /\ appdata' =
                     [appdata EXCEPT ![c.anonId] =
                        ReconcileWrite(@, c.body.achievementsEarned,
                                       c.body.achievementsMinted)]
                /\ sent' = ResponseAbout("GET", c.cookie, c.anonId, c.setCookie, 200,
                             "", Some(c.body), Trace(1, 0, 0),
                             GetAbout(over, mixed, c.doc, lost))
           ELSE /\ UNCHANGED appdata
                /\ sent' = LET f == GetFailure(c.body)
                           IN  ResponseAbout("GET", c.cookie, c.anonId,
                                 c.setCookie, f.status, f.error, f.body,
                                 Trace(0, 0, 0),
                                 GetAbout(over, mixed, c.doc, {}))
  /\ ctx' = Step("GET", s, Idle)
  /\ UNCHANGED <<lastGet, forged, probe, connected, mintBackend, issued, verified, mintLog>>

(***************************************************************************)
(* PUT /api/data.                                                          *)
(***************************************************************************)
\* mutant: the handler also stores the other fields of the body
PutWrite_wholeBody(doc, body) ==
  [doc EXCEPT !.exists = TRUE,
              !.diet = Some(FieldOr(body.diet, EmptyMap)),
              !.activity = Some(FieldOr(body.activity, EmptyMap)),
              !.goals = Some(FieldOr(body.goals, JsNull)),
              !.goalStory = Some(FieldOr(body.goalStory, "")),
              !.walletAddress =
                 IF body.walletAddress # Absent THEN body.walletAddress ELSE @,
              !.achievementsEarned =
                 IF body.achievementsEarned # Absent
                 THEN body.achievementsEarned ELSE @,
              !.achievementsMinted =
                 IF body.achievementsMinted # Absent
                 THEN body.achievementsMinted ELSE @,
              !.updatedAt = Some(Now)]

\* mutant: $set holds only the fields the body carries
PutWrite_keepsOmitted(doc, body) ==
  [doc EXCEPT !.exists = TRUE,
              !.diet = IF body.diet = Absent THEN @ ELSE body.diet,
              !.activity = IF body.activity = Absent THEN @ ELSE body.activity,
              !.goals = IF body.goals = Absent THEN @ ELSE body.goals,
              !.goalStory = IF body.goalStory = Absent THEN @
                            ELSE body.goalStory,
              !.updatedAt = Some(Now)]

\* const { diet = {}, activity = {}, goals = null, goalStory = "" } = body;
\* updateOne({_id}, {$set: {diet, activity, goals, goalStory, updatedAt}},
\* {upsert: true})
PutWrite(doc, body) ==
  [doc EXCEPT !.exists = TRUE,
              !.diet = Some(FieldOr(body.diet, EmptyMap)),
              !.activity = Some(FieldOr(body.activity, EmptyMap)),
              !.goals = Some(FieldOr(body.goals, JsNull)),
              !.goalStory = Some(FieldOr(body.goalStory, "")),
              !.updatedAt = Some(Now)]

PutData(s) ==
  \E cookie \in CookieInputs, uuid \in UUIDPool, body \in Bodies,
     ok \in BOOLEAN :
    /\ Arrive(s, cookie, uuid)
    /\ connected \/ ok            \* no DB call, no DB outcome
    /\ LET anonId == AnonIdFor(cookie, uuid)
           setCookie == SetCookieFor(cookie, uuid)
       IN  IF ~connected
           THEN /\ sent' = ResponseAbout("PUT", cookie, anonId, setCookie,
                                    503, DbDown, NoBody,
                                    Trace(0, 0, 0), Some([body |-> body]))
                /\ UNCHANGED appdata
           ELSE IF ~ok
           THEN /\ sent' = ResponseAbout("PUT", cookie, anonId, setCookie,
                                    500, DbError, NoBody,
                                    Trace(0, 0, 0), Some([body |-> body]))
                /\ UNCHANGED appdata
           ELSE /\ appdata' = [appdata EXCEPT ![anonId] = PutWrite(@, body)]
                /\ sent' = ResponseAbout("PUT", cookie, anonId, setCookie,
                                    200, "", Some([ok |-> TRUE]),
                                    Trace(1, 0, 0), Some([body |-> body]))
    /\ ctx' = Step("PUT", s, Idle)
    /\ lastGet' = Absent
    /\ UNCHANGED <<forged, probe, connected, mintBackend, verified, mintLog>>

(***************************************************************************)
(* POST /api/link-wallet and POST /api/disconnect-wallet.                  *)
(***************************************************************************)
MissingLinkField == "Missing publicKey, message, or signature."
InvalidPublicKey == "Invalid public key input"
InvalidSignatureLength == "Invalid signature length."
InvalidSignature == "Invalid signature."

\* mutant: the result of verify is ignored
LinkDecision_noVerify(publicKey, message, signature) ==
  IF publicKey = Absent \/ message = Absent \/ signature = Absent
  THEN [status |-> 400, error |-> MissingLinkField, verifyCalls |-> 0]
  ELSE IF PublicKeyBytes(publicKey[1]) = Absent
  THEN [status |-> 500, error |-> InvalidPublicKey, verifyCalls |-> 0]
  ELSE IF signature[1].len # SignatureLength
  THEN [status |-> 400, error |-> InvalidSignatureLength, verifyCalls |-> 0]
  ELSE [status |-> 200, error |-> "", verifyCalls |-> 1]

\* the handler up to its updateOne: the status and error it answers with
\* (200 when it goes on to persist), and the number of verify calls it made
LinkDecision(publicKey, message, signature) ==
  IF publicKey = Absent \/ message = Absent \/ signature = Absent
  THEN [status |-> 400, error |-> MissingLinkField, verifyCalls |-> 0]
  ELSE IF PublicKeyBytes(publicKey[1]) = Absent
  THEN [status |-> 500, error |-> InvalidPublicKey, verifyCalls |-> 0]
  ELSE IF signature[1].len # SignatureLength
  THEN [status |-> 400, error |-> InvalidSignatureLength, verifyCalls |-> 0]
  ELSE IF ~Verify(message[1], signature[1], PublicKeyBytes(publicKey[1])[1])
  THEN [status |-> 401, error |-> InvalidSignature, verifyCalls |-> 1]
  ELSE [status |-> 200, error |-> "", verifyCalls |-> 1]

\* history only: the request carries a 64-byte signature that the primitive
\* accepts for its message and its public key
SignatureVerifies(input) ==
  /\ input.publicKey # Absent /\ input.message # Absent
  /\ input.signature # Absent
  /\ PublicKeyBytes(input.publicKey[1]) # Absent
  /\ input.signature[1].len = SignatureLength
  /\ Verify(input.message[1], input.signature[1],
            PublicKeyBytes(input.publicKey[1])[1])

\* updateOne({_id}, {$set: {walletAddress: publicKey, updatedAt}},
\* {upsert: true})
LinkWrite(doc, publicKey) ==
  [doc EXCEPT !.exists = TRUE,
              !.walletAddress = Some(publicKey),
              !.updatedAt = Some(Now)]

\* mutant: a request refused for its signature still records the wallet
LinkRejected_persists(doc, input) ==
  IF input.publicKey # Absent /\ input.signature # Absent
       /\ PublicKeyBytes(input.publicKey[1]) # Absent
       /\ input.signature[1].len = SignatureLength
  THEN LinkWrite(doc, input.publicKey[1])
  ELSE doc

\* a return before the updateOne (400, 401) or the catch block (500): the
\* handler answers and writes nothing
LinkRejected(doc, input) == doc

LinkWallet(s) ==
  \E cookie \in CookieInputs, uuid \in UUIDPool, input \in LinkInputs,
     ok \in BOOLEAN :
    /\ Arrive(s, cookie, uuid)
    /\ \/ ok                      \* no DB call, no DB outcome
       \/ /\ connected
          /\ LinkDecision(input.publicKey, input.message,
                          input.signature).status = 200
    /\ LET anonId == AnonIdFor(cookie, uuid)
           setCookie == SetCookieFor(cookie, uuid)
           publicKey == input.publicKey
           d == LinkDecision(publicKey, input.message, input.signature)
           about == Some([ input |-> input,
                           verifyCalls |-> IF connected THEN d.verifyCalls
                                           ELSE 0 ])
       IN  IF ~connected
           THEN /\ sent' = ResponseAbout("link", cookie, anonId, setCookie, 503,
                             DbDown, NoBody, Trace(0, 0, 0), about)
                /\ UNCHANGED <<appdata, verified>>
           ELSE IF d.status # 200
           THEN /\ appdata' = [appdata EXCEPT ![anonId] =
                                 LinkRejected(@, input)]
                /\ sent' = ResponseAbout("link", cookie, anonId, setCookie,
                             d.status, d.error, NoBody,
                             Trace(IF appdata'[anonId] # appdata[anonId]
                                   THEN 1 ELSE 0, 0, 0),
                             about)
                /\ UNCHANGED verified
           ELSE /\ verified' = IF SignatureVerifies(input)
                                THEN verified \cup {<<anonId, publicKey[1]>>}
                                ELSE verified
                /\ IF ok
                   THEN /\ appdata' = [appdata EXCEPT ![anonId] =
                                         LinkWrite(@, publicKey[1])]
                        /\ sent' = ResponseAbout("link", cookie, anonId, setCookie,
                                     200, "",
                                     Some([ok |-> TRUE,
                                           walletAddress |-> publicKey[1]]),
                                     Trace(1, 0, 0), about)
                   ELSE /\ UNCHANGED appdata
                        /\ sent' = ResponseAbout("link", cookie, anonId, setCookie,
                                     500, DbError, NoBody,
                                     Trace(0, 0, 0), about)
    /\ ctx' = Step("link", s, Idle)
    /\ lastGet' = Absent
    /\ UNCHANGED <<forged, probe, connected, mintBackend, mintLog>>

\* mutant: the disconnect only touches updatedAt
DisconnectWrite_keepsWallet(doc) ==
  IF doc.exists
  THEN [doc EXCEPT !.updatedAt = Some(Now)]
  ELSE doc

\* updateOne({_id}, {$unset: {walletAddress: ""}, $set: {updatedAt}}), no
\* upsert: nothing happens when there is no document
DisconnectWrite(doc) ==
  IF doc.exists
  THEN [doc EXCEPT !.walletAddress = Absent, !.updatedAt = Some(Now)]
  ELSE doc

DisconnectWallet(s) ==
  \E cookie \in CookieInputs, uuid \in UUIDPool, ok \in BOOLEAN :
    /\ Arrive(s, cookie, uuid)
    /\ connected \/ ok            \* no DB call, no DB outcome
    /\ LET anonId == AnonIdFor(cookie, uuid)
           setCookie == SetCookieFor(cookie, uuid)
       IN  IF ~connected
           THEN /\ sent' = Response("disconnect", cookie, anonId, setCookie, 503,
                                    DbDown, NoBody, Trace(0, 0, 0))
                /\ UNCHANGED appdata
           ELSE IF ~ok
           THEN /\ sent' = Response("disconnect", cookie, anonId, setCookie, 500,
                                    DbError, NoBody, Trace(0, 0, 0))
                /\ UNCHANGED appdata
           ELSE /\ appdata' = [appdata EXCEPT ![anonId] = DisconnectWrite(@)]
                /\ sent' = Response("disconnect", cookie, anonId, setCookie, 200, "",
                                    Some([ok |-> TRUE]),
                                    Trace(IF appdata[anonId].exists
                                          THEN 1 ELSE 0, 0, 0))
    /\ ctx' = Step("disconnect", s, Idle)
    /\ lastGet' = Absent
    /\ UNCHANGED <<forged, probe, connected, mintBackend, verified, mintLog>>

(***************************************************************************)
(* POST /api/mint-achievement.                                             *)
(***************************************************************************)
MissingAchievementId == "Missing achievementId."
WalletNotLinked == "Connect a Solana wallet first."
NotEarned == "Achievement not earned."
AlreadyMinted == "Already minted."
UnknownAchievement == "Unknown achievement."
MintNotConfigured == "NFT minting not configured."
MintNotAvailable == "NFT minting not available."

\* doc?.achievementsEarned || computeAchievementsEarned(doc?.diet || {},
\* doc?.activity || {}, doc?.goals): a stored array, even an empty one, is
\* truthy
EarnedForMint(doc) ==
  IF doc.achievementsEarned # Absent
  THEN doc.achievementsEarned[1]
  ELSE computeAchievementsEarned(FieldOr(doc.diet, EmptyMap),
                                 FieldOr(doc.activity, EmptyMap),
                                 FieldOr(doc.goals, JsNull))

\* mutant: the earned check comes before the wallet check
MintGate_earnedFirst(doc, achievementId, backend) ==
  LET earned == EarnedForMint(doc)
      minted == FieldOr(doc.achievementsMinted, <<>>)
  IN  IF ~Includes(earned, achievementId)
      THEN [status |-> 400, error |-> NotEarned]
      ELSE IF doc.walletAddress = Absent
      THEN [status |-> 400, error |-> WalletNotLinked]
      ELSE IF Includes(minted, achievementId)
      THEN [status |-> 400, error |-> AlreadyMinted]
      ELSE IF ~Includes(ACHIEVEMENTS, achievementId)
      THEN [status |-> 400, error |-> UnknownAchievement]
      ELSE IF backend = "no_keypair"
      THEN [status |-> 503, error |-> MintNotConfigured]
      ELSE IF backend = "no_handler"
      THEN [status |-> 503, error |-> MintNotAvailable]
      ELSE [status |-> 0, error |-> ""]

\* mutant: the already-minted check is missing
MintGate_noMintedCheck(doc, achievementId, backend) ==
  LET earned == EarnedForMint(doc)
  IN  IF doc.walletAddress = Absent
      THEN [status |-> 400, error |-> WalletNotLinked]
      ELSE IF ~Includes(earned, achievementId)
      THEN [status |-> 400, error |-> NotEarned]
      ELSE IF ~Includes(ACHIEVEMENTS, achievementId)
      THEN [status |-> 400, error |-> UnknownAchievement]
      ELSE IF backend = "no_keypair"
      THEN [status |-> 503, error |-> MintNotConfigured]
      ELSE IF backend = "no_handler"
      THEN [status |-> 503, error |-> MintNotAvailable]
      ELSE [status |-> 0, error |-> ""]

\* the checks between findOne and the mintNft call, in the order of the
\* code; status 0 when all of them pass
MintGate(doc, achievementId, backend) ==
  LET earned == EarnedForMint(doc)
      minted == FieldOr(doc.achievementsMinted, <<>>)
  IN  IF doc.walletAddress = Absent
      THEN [status |-> 400, error |-> WalletNotLinked]
      ELSE IF ~Includes(earned, achievementId)
      THEN [status |-> 400, error |-> NotEarned]
      ELSE IF Includes(minted, achievementId)
      THEN [status |-> 400, error |-> AlreadyMinted]
      ELSE IF ~Includes(ACHIEVEMENTS, achievementId)
      THEN [status |-> 400, error |-> UnknownAchievement]
      ELSE IF backend = "no_keypair"
      THEN [status |-> 503, error |-> MintNotConfigured]
      ELSE IF backend = "no_handler"
      THEN [status |-> 503, error |-> MintNotAvailable]
      ELSE [status |-> 0, error |-> ""]

\* what the loaded document says about the requested achievement, and
\* whether the request directly follows a GET of the identity, overlapped by
\* no request, whose response listed the achievement as earned and not minted
MintAbout(anonId, doc, achievementId, backend) ==
  [ achievementId |-> achievementId,
    listedByLastGet |->
      /\ lastGet # Absent /\ lastGet[1].anonId = anonId
      /\ ~lastGet[1].overlapped
      /\ \A t \in Slots : ~InFlight(t)
      /\ Includes(lastGet[1].body.achievementsEarned, achievementId)
      /\ ~Includes(lastGet[1].body.achievementsMinted, achievementId),
    walletLinked |-> doc.walletAddress # Absent,
    inCatalog |-> Includes(ACHIEVEMENTS, achievementId),
    earnedNow |-> Includes(EarnedOfDoc(doc), achievementId),
    earnedUsed |-> Includes(EarnedForMint(doc), achievementId),
    alreadyMinted |->
      Includes(FieldOr(doc.achievementsMinted, <<>>), achievementId),
    backendOk |-> backend = "ok" ]

\* updateOne({_id}, {$addToSet: {achievementsMinted: achievementId},
\* $set: {updatedAt}}), no upsert
MintWrite(doc, achievementId) ==
  IF doc.exists
  THEN LET cur == FieldOr(doc.achievementsMinted, <<>>)
       IN  [doc EXCEPT !.achievementsMinted =
                         Some(IF Includes(cur, achievementId) THEN cur
                              ELSE Append(cur, achievementId)),
                       !.updatedAt = Some(Now)]
  ELSE doc

\* mutant: the achievement is recorded although mintNft rejected
MintRejected_marks(doc, achievementId) == MintWrite(doc, achievementId)

\* the catch block after mintNft rejected: it answers 500 and writes nothing
MintRejected(doc, achievementId) == doc

\* from the request's arrival to the call of mintNft, or to the response
\* when a check fails
MintAchievement_findOne(s) ==
  \E cookie \in CookieInputs, uuid \in UUIDPool,
     achievementId \in AchievementInputs, ok \in BOOLEAN :
    /\ Arrive(s, cookie, uuid)
    /\ (connected /\ achievementId # Absent) \/ ok   \* no DB call, no DB outcome
    /\ LET anonId == AnonIdFor(cookie, uuid)
           setCookie == SetCookieFor(cookie, uuid)
           doc == appdata[anonId]
           tr == Trace(0, 0, 0)
       IN  IF ~connected
           THEN /\ sent' = Response("mint", cookie, anonId, setCookie, 503, DbDown,
                                    NoBody, tr)
                /\ ctx' = Step("mint", s, Idle)
           ELSE IF achievementId = Absent
           THEN /\ sent' = Response("mint", cookie, anonId, setCookie, 400,
                                    MissingAchievementId, NoBody, tr)
                /\ ctx' = Step("mint", s, Idle)
           ELSE IF ~ok
           THEN /\ sent' = Response("mint", cookie, anonId, setCookie, 500, DbError,
                                    NoBody, tr)
                /\ ctx' = Step("mint", s, Idle)
           ELSE LET g == MintGate(doc, achievementId[1], mintBackend)
                    about == Some(MintAbout(anonId, doc, achievementId[1],
                                            mintBackend))
                IN  IF g.status # 0
                    THEN /\ sent' = ResponseAbout("mint", cookie, anonId, setCookie,
                                      g.status, g.error, NoBody, tr, about)
                         /\ ctx' = Step("mint", s, Idle)
                    ELSE /\ sent' = Absent
                         /\ ctx' = Step("mint", s,
                              [ pc |-> "mint_mintNft", cookie |-> cookie,
                                anonId |-> anonId,
                                setCookie |-> setCookie,
                                achievementId |-> achievementId[1],
                                walletAddress |-> doc.walletAddress[1],
                                about |-> about ])
    /\ lastGet' = Absent
    /\ UNCHANGED <<forged, probe, connected, mintBackend, appdata, verified, mintLog>>

\* the awaited mintNft(walletAddress, meta) resolves or rejects
MintAchievement_mintNft(s) ==
  /\ sent = Absent
  /\ ctx[s].pc = "mint_mintNft"
  /\ \E ok \in BOOLEAN :
       LET c == ctx[s]
       IN  IF ok
           THEN /\ mintLog' = mintLog \cup {<<c.anonId, c.achievementId>>}
                /\ ctx' = Step("mint", s, [c EXCEPT !.pc = "mint_updateOne"])
                /\ sent' = Absent
                /\ UNCHANGED appdata
           ELSE /\ UNCHANGED mintLog
                /\ appdata' = [appdata EXCEPT ![c.anonId] =
                                 MintRejected(@, c.achievementId)]
                /\ ctx' = Step("mint", s, Idle)
                /\ sent' = ResponseAbout("mint", c.cookie, c.anonId, c.setCookie, 500,
                             MintError, NoBody,
                             Trace(IF appdata'[c.anonId] # appdata[c.anonId]
                                   THEN 1 ELSE 0, 1, 0),
                             c.about)
  /\ lastGet' = Absent
  /\ UNCHANGED <<forged, probe, connected, mintBackend, issued, verified>>

\* the awaited updateOne resolves or rejects, then the response
MintAchievement_updateOne(s) ==
  /\ sent = Absent
  /\ ctx[s].pc = "mint_updateOne"
  /\ \E ok \in BOOLEAN :
       LET c == ctx[s]
       IN  IF ok
           THEN /\ appdata' = [appdata EXCEPT ![c.anonId] =
                                 MintWrite(@, c.achievementId)]
                /\ sent' = ResponseAbout("mint", c.cookie, c.anonId, c.setCookie, 200,
                             "", Some([ok |-> TRUE, signature |-> "tx"]),
                             Trace(1, 1, 1), c.about)
           ELSE /\ UNCHANGED appdata
                /\ sent' = ResponseAbout("mint", c.cookie, c.anonId, c.setCookie, 500,
                             DbError, NoBody, Trace(0, 1, 1), c.about)
  /\ ctx' = Step("mint", s, Idle)
  /\ lastGet' = Absent
  /\ UNCHANGED <<forged, probe, connected, mintBackend, issued, verified, mintLog>>

(***************************************************************************)
(* The server.                                                             *)
(***************************************************************************)
\* MongoClient.connect(...).then((client) => { db = client.db(); })
MongoConnect ==
  /\ sent = Absent
  /\ ~connected
  /\ connected' = TRUE
  /\ sent' = Absent
  /\ UNCHANGED <<mintBackend, appdata, issued, ctx, verified, mintLog,
                 lastGet, forged, probe>>

\* the response written by the last step leaves the process before the event
\* loop runs the next callback
Deliver ==
  /\ sent # Absent
  /\ sent' = Absent
  /\ lastGet' = IF sent[1].op = "GET" /\ sent[1].status = 200
                THEN Some([ anonId |-> sent[1].anonId, body |-> sent[1].body[1],
                            overlapped |-> sent[1].about[1].overlapped,
                            mixed |-> sent[1].about[1].mixed,
                            writes |-> sent[1].trace.writes ])
                ELSE Absent
  /\ UNCHANGED <<connected, mintBackend, appdata, issued, ctx, verified,
                 mintLog, forged, probe>>

Init ==
  /\ connected = FALSE
  /\ mintBackend \in {"no_keypair", "no_handler", "ok"}
  /\ appdata = [id \in UUIDPool \cup ForgedTokens |-> NoDoc]
  /\ issued = {}
  /\ ctx = [s \in Slots |-> Idle]
  /\ sent = Absent
  /\ verified = {}
  /\ mintLog = {}
  /\ lastGet = Absent
  /\ forged = {}
  /\ probe = Absent

Next ==
  \/ MongoConnect
  \/ Deliver
  \/ \E s \in Slots : GetData_findOne(s)
  \/ \E s \in Slots : GetData_updateOne(s)
  \/ \E s \in Slots : PutData(s)
  \/ \E s \in Slots : LinkWallet(s)
  \/ \E s \in Slots : DisconnectWallet(s)
  \/ \E s \in Slots : MintAchievement_findOne(s)
  \/ \E s \in Slots : MintAchievement_mintNft(s)
  \/ \E s \in Slots : MintAchievement_updateOne(s)

Spec == Init /\ [][Next]_vars

\* the server with clients that also present cookie values of their own
\* making, restricted to the data endpoints
InitForged ==
  /\ connected = FALSE
  /\ mintBackend = "no_keypair"
  /\ appdata = [id \in UUIDPool \cup ForgedTokens |-> NoDoc]
  /\ issued = {}
  /\ ctx = [s \in Slots |-> Idle]
  /\ sent = Absent
  /\ verified = {}
  /\ mintLog = {}
  /\ lastGet = Absent
  /\ forged = ForgedTokens
  /\ probe = Absent

NextForged ==
  \/ MongoConnect
  \/ Deliver
  \/ \E s \in Slots : GetData_findOne(s)
  \/ \E s \in Slots : GetData_updateOne(s)
  \/ \E s \in Slots : PutData(s)

SpecForged == InitForged /\ [][NextForged]_vars

(***************************************************************************)
(* computeAchievementsEarned called directly.                              *)
(***************************************************************************)
\* dates are day numbers 1 .. MaxDay
MaxDay == 8

\* the entry list of every date of a diet mapping
DietLists ==
  { <<>>, <<Food(500, 60)>>, <<Food(250, 30), Food(250, 30)>>,
    <<Food(300, 10)>> }

\* the entry list of every date of an activity mapping
ActivityLists ==
  { <<>>, <<Session(45)>>, <<Session(20), Session(20)>>,
    <<Session(10), Session(10), Session(10), Session(10), Session(10)>> }

\* the date sets of an activity mapping: the first k days, the last day,
\* every second day
ActivityDaySets ==
  {1 .. k : k \in 0 .. MaxDay} \cup {{MaxDay}, {1, 3, 5}}

GoalInputs ==
  { JsNull,
    Some([calorieGoal |-> 500, proteinGoal |-> 60, activityGoal |-> 40]),
    Some([calorieGoal |-> 0, proteinGoal |-> 0, activityGoal |-> 0]) }

\* arguments of computeAchievementsEarned: a diet mapping over any set of
\* dates, an activity mapping over one of the date sets above, goals
PureInputs ==
  { [ diet |-> [d \in dd |-> dl], activity |-> [d \in ad |-> al],
      goals |-> g ] :
      dd \in SUBSET (1 .. MaxDay), dl \in DietLists,
      ad \in ActivityDaySets, al \in ActivityLists, g \in GoalInputs }

InitPure ==
  /\ connected = FALSE
  /\ mintBackend = "no_keypair"
  /\ appdata = [id \in UUIDPool \cup ForgedTokens |-> NoDoc]
  /\ issued = {}
  /\ ctx = [s \in Slots |-> Idle]
  /\ sent = Absent
  /\ verified = {}
  /\ mintLog = {}
  /\ lastGet = Absent
  /\ forged = {}
  /\ \E input \in PureInputs :
       probe = Some([input |-> input, earned |-> Absent])

\* the call returns
ComputeEarned ==
  /\ probe # Absent /\ probe[1].earned = Absent
  /\ probe' = Some([ probe[1] EXCEPT
                       !.earned =
                         Some(computeAchievementsEarned(probe[1].input.diet,
                                                        probe[1].input.activity,
                                                        probe[1].input.goals)) ])
  /\ UNCHANGED <<connected, mintBackend, appdata, issued, ctx, sent, verified,
                 mintLog, lastGet, forged>>

NextPure == ComputeEarned

SpecPure == InitPure /\ [][NextPure]_vars

(***************************************************************************)
(* Properties.                                                             *)
(***************************************************************************)
Identities == UUIDPool \cup ForgedTokens

\* the response just written, when it is one of operation op
SentIs(op) == sent # Absent /\ sent[1].op = op

StoredMinted(id) == FieldOr(appdata[id].achievementsMinted, <<>>)

\* C1: in every successful GET /api/data response, achievementsMinted is a
\* subset of achievementsEarned of the same response.
C1_MintedSubsetOfEarnedInResponse ==
  (SentIs("GET") /\ sent[1].status = 200) =>
    Range(sent[1].body[1].achievementsMinted)
      \subseteq Range(sent[1].body[1].achievementsEarned)

\* a GET answered after pruning "first_activity" from a stored list that
\* keeps "first_food"
C1_Witness ==
  /\ SentIs("GET") /\ sent[1].status = 200
  /\ sent[1].body[1].achievementsMinted = <<"first_food">>
  /\ sent[1].trace.writes = 1
  /\ <<sent[1].anonId, "first_activity">> \in mintLog

\* C2: when a GET /api/data that no other request overlapped completes
\* successfully, the persisted achievementsMinted is a subset of
\* computeAchievementsEarned of the persisted diet, activity and goals.
C2_PersistedMintedSubsetAfterGet ==
  (SentIs("GET") /\ sent[1].status = 200 /\ ~sent[1].about[1].overlapped) =>
    Range(StoredMinted(sent[1].anonId))
      \subseteq Range(EarnedOfDoc(appdata[sent[1].anonId]))

\* such a GET whose write removed a minted achievement from the record
C2_Witness ==
  /\ SentIs("GET") /\ sent[1].status = 200 /\ ~sent[1].about[1].overlapped
  /\ sent[1].trace.writes = 1
  /\ \E a \in Range(ACHIEVEMENTS) :
       /\ <<sent[1].anonId, a>> \in mintLog
       /\ ~Includes(StoredMinted(sent[1].anonId), a)

\* C3: a persisted walletAddress of an identity is the publicKey of an
\* earlier link-wallet request of that identity whose 64-byte signature
\* verified; and a step that sets or changes walletAddress is the completion
\* of such a link-wallet request (no GET, PUT, mint or rejected link does).
C3_WalletOnlyByVerifiedLink ==
  /\ [](\A id \in Identities :
          appdata[id].walletAddress # Absent =>
            <<id, appdata[id].walletAddress[1]>> \in verified)
  /\ [][\A id \in Identities :
          (/\ appdata'[id].walletAddress # appdata[id].walletAddress
           /\ appdata'[id].walletAddress # Absent) =>
            /\ sent' # Absent /\ sent'[1].op = "link"
            /\ sent'[1].status = 200 /\ sent'[1].anonId = id
            /\ SignatureVerifies(sent'[1].about[1].input)
            /\ sent'[1].about[1].input.publicKey
                 = appdata'[id].walletAddress]_vars

\* a link request is rejected for a wrong signature while a wallet is linked
C3_Witness ==
  /\ SentIs("link") /\ sent[1].status = 401
  /\ appdata[sent[1].anonId].walletAddress = Some("pkA")

\* C4: a mint request whose loaded record has no walletAddress fails with the
\* wallet-not-linked error, calls no mint collaborator and writes nothing.
C4_NoWalletNoMint ==
  (SentIs("mint") /\ sent[1].about # Absent
     /\ ~sent[1].about[1].walletLinked) =>
    /\ sent[1].status = 400 /\ sent[1].error = WalletNotLinked
    /\ sent[1].trace.mintCalls = 0 /\ sent[1].trace.writes = 0

\* the refused request asks for an achievement that is earned and already
\* minted (minted before the wallet was disconnected)
C4_Witness ==
  /\ SentIs("mint") /\ sent[1].about # Absent
  /\ ~sent[1].about[1].walletLinked
  /\ sent[1].about[1].earnedNow /\ sent[1].about[1].alreadyMinted

\* C5 as amended: every achievement ID in a persisted achievementsMinted
\* had a mint collaborator call for that identity and that ID return
\* successfully; a step that adds an ID to achievementsMinted is the
\* completion of a mint request, or the write of a GET that another request
\* overlapped (it puts back what it loaded); PUT, link and disconnect add none.
C5_MintedHadSuccessfulMint ==
  /\ [](\A id \in Identities :
          \A a \in Range(StoredMinted(id)) : <<id, a>> \in mintLog)
  /\ [][\A id \in Identities :
          \/ Range(StoredMinted(id))' \subseteq Range(StoredMinted(id))
          \/ sent' # Absent /\ sent'[1].op = "mint"
          \/ /\ sent' # Absent /\ sent'[1].op = "GET"
             /\ sent'[1].about[1].overlapped]_vars

\* two achievements are recorded as minted
C5_Witness ==
  \E id \in Identities : Len(StoredMinted(id)) = 2

\* C5 as stated: also no GET request ever adds an ID to achievementsMinted
C5_AsStated ==
  /\ [](\A id \in Identities :
          \A a \in Range(StoredMinted(id)) : <<id, a>> \in mintLog)
  /\ [][\A id \in Identities :
          \/ Range(StoredMinted(id))' \subseteq Range(StoredMinted(id))
          \/ sent' # Absent /\ sent'[1].op = "mint"]_vars

\* the first failing precondition in the order of section 4.5: wallet linked,
\* in catalog, earned, not already minted, backend available
FirstFailingInSpecOrder(about) ==
  IF ~about.walletLinked THEN WalletNotLinked
  ELSE IF ~about.inCatalog THEN UnknownAchievement
  ELSE IF ~about.earnedUsed THEN NotEarned
  ELSE IF about.alreadyMinted THEN AlreadyMinted
  ELSE IF mintBackend = "no_keypair" THEN MintNotConfigured
  ELSE MintNotAvailable

\* C6: a mint request refused by a precondition reports the first failing one
\* in the order wallet, catalog, earned, not minted, backend; a request with
\* a linked wallet for an id outside the catalog gets UnknownAchievement.
C6_ChecksInSpecOrder ==
  (SentIs("mint") /\ sent[1].about # Absent /\ sent[1].trace.mintCalls = 0) =>
    sent[1].error = FirstFailingInSpecOrder(sent[1].about[1])

\* C7: mintNft is called only for an achievement that is in the earned set
\* computed from the diet, activity and goals of the record the request
\* loaded; a request with a linked wallet for a catalog achievement that is
\* not in that set fails with NotEarned.
C7_MintOnlyIfEarnedNow ==
  /\ \A s \in Slots :
       ctx[s].pc = "mint_mintNft" => ctx[s].about[1].earnedNow
  /\ (SentIs("mint") /\ sent[1].about # Absent
        /\ sent[1].about[1].walletLinked /\ sent[1].about[1].inCatalog
        /\ ~sent[1].about[1].earnedNow) =>
       (sent[1].status = 400 /\ sent[1].error = NotEarned)

C9_FailedMintLeavesRecord ==
  (SentIs("mint") /\ sent[1].trace.mintCalls > 0
     /\ sent[1].trace.mintOk = 0) =>
    /\ sent[1].status = 500 /\ sent[1].error = MintError
    /\ sent[1].trace.writes = 0 /\ sent[1].trace.mintCalls = 1
    /\ sent[1].body = NoBody

\* a mint request answered after mintNft rejected, the achievement not
\* recorded
C9_Witness ==
  /\ SentIs("mint") /\ sent[1].trace.mintCalls = 1
  /\ sent[1].trace.mintOk = 0
  /\ ~Includes(StoredMinted(sent[1].anonId), sent[1].about[1].achievementId)

\* C10: when the mintNft call of a mint request has resolved, the achievement
\* ID is in the persisted achievementsMinted when the request completes.
C10_MintedRecordedAfterSuccess ==
  (SentIs("mint") /\ sent[1].trace.mintOk = 1) =>
    Includes(StoredMinted(sent[1].anonId), sent[1].about[1].achievementId)

\* the response just written is a GET answered 200 that directly follows
\* another GET answered 200 for the same identity
GetAfterGet ==
  /\ SentIs("GET") /\ sent[1].status = 200
  /\ lastGet # Absent /\ lastGet[1].anonId = sent[1].anonId

\* C11: of two successive successful GET /api/data requests of one identity,
\* neither overlapped by another request and with no request in between, the
\* second returns the same diet, activity, goals, achievementsEarned and
\* achievementsMinted as the first and issues no persistence write.
C11_SuccessiveGetsIdempotent ==
  (GetAfterGet /\ ~sent[1].about[1].overlapped /\ ~lastGet[1].overlapped) =>
    /\ sent[1].body[1].diet = lastGet[1].body.diet
    /\ sent[1].body[1].activity = lastGet[1].body.activity
    /\ sent[1].body[1].goals = lastGet[1].body.goals
    /\ sent[1].body[1].achievementsEarned = lastGet[1].body.achievementsEarned
    /\ sent[1].body[1].achievementsMinted = lastGet[1].body.achievementsMinted
    /\ sent[1].trace.writes = 0

\* the first of the two GETs wrote its reconciliation, the second found
\* nothing to write; an achievement that was minted is not in the list
C11_Witness ==
  /\ GetAfterGet /\ ~sent[1].about[1].overlapped /\ ~lastGet[1].overlapped
  /\ lastGet[1].writes = 1 /\ sent[1].trace.writes = 0
  /\ sent[1].body[1].achievementsEarned # <<>>
  /\ \E a \in Range(ACHIEVEMENTS) :
       /\ <<sent[1].anonId, a>> \in mintLog
       /\ ~Includes(sent[1].body[1].achievementsMinted, a)

\* the write of a GET stored the earned and minted lists of its response
WroteSnapshot ==
  /\ appdata[sent[1].anonId].achievementsEarned
       = Some(sent[1].body[1].achievementsEarned)
  /\ appdata[sent[1].anonId].achievementsMinted
       = Some(sent[1].body[1].achievementsMinted)

\* pruning removed at least one entry of the stored minted list
PrunedSome ==
  Len(sent[1].body[1].achievementsMinted) < Len(sent[1].about[1].storedMinted)

\* C12 as amended: a successful GET /api/data issues a persistence write, of
\* {achievementsEarned: earned, achievementsMinted: prunedMinted}, exactly
\* when pruning removed a stored minted entry or when a record exists for the
\* identity and lacks achievementsEarned or achievementsMinted; for an
\* identity with no record it issues no write.
C12_WriteExactlyWhenNeeded ==
  (SentIs("GET") /\ sent[1].status = 200) =>
    /\ sent[1].trace.writes = 1 <=>
         \/ PrunedSome
         \/ /\ sent[1].about[1].hadRecord
            /\ ~sent[1].about[1].hadEarned \/ ~sent[1].about[1].hadMinted
    /\ sent[1].trace.writes = 1 => WroteSnapshot
    /\ sent[1].trace.writes \in {0, 1}

\* a GET for an identity that has no record: answered without a write, and
\* still no record afterwards
C12_Witness ==
  /\ SentIs("GET") /\ sent[1].status = 200
  /\ ~sent[1].about[1].hadRecord /\ sent[1].trace.writes = 0
  /\ ~appdata[sent[1].anonId].exists

\* C12 as stated: the write is also issued when no record exists yet for the
\* identity
C12_AsStated ==
  (SentIs("GET") /\ sent[1].status = 200) =>
    /\ sent[1].trace.writes = 1 <=>
         \/ PrunedSome
         \/ ~sent[1].about[1].hadEarned \/ ~sent[1].about[1].hadMinted
    /\ sent[1].trace.writes = 1 => WroteSnapshot

\* C13: the achievementsMinted a successful GET /api/data returns is, as a
\* set, the intersection of the achievementsMinted of the record it loaded
\* with the earned set it computed; when the GET writes, that list is what it
\* persists.
C13_MintedIsIntersection ==
  (SentIs("GET") /\ sent[1].status = 200) =>
    /\ Range(sent[1].body[1].achievementsMinted)
         = Range(sent[1].about[1].storedMinted)
             \cap Range(sent[1].body[1].achievementsEarned)
    /\ sent[1].trace.writes = 1 =>
         appdata[sent[1].anonId].achievementsMinted
           = Some(sent[1].body[1].achievementsMinted)

\* a GET that loaded two minted achievements, both still earned, and kept
\* both
C13_Witness ==
  /\ SentIs("GET") /\ sent[1].status = 200
  /\ Len(sent[1].about[1].storedMinted) = 2
  /\ Len(sent[1].body[1].achievementsMinted) = 2

\* a link request, handled with the database configured, that carries all
\* three fields
LinkWithAllFields ==
  /\ SentIs("link") /\ sent[1].status # 503
  /\ sent[1].about[1].input.publicKey # Absent
  /\ sent[1].about[1].input.message # Absent
  /\ sent[1].about[1].input.signature # Absent

\* C14: a link-wallet request whose decoded signature is not 64 bytes long is
\* rejected with InvalidSignatureLength, without a verify call and without a
\* write, whatever its publicKey is (also one that does not decode).
C14_ShortSignatureRejected ==
  (LinkWithAllFields
     /\ sent[1].about[1].input.signature[1].len # SignatureLength) =>
    /\ sent[1].status = 400 /\ sent[1].error = InvalidSignatureLength
    /\ sent[1].about[1].verifyCalls = 0 /\ sent[1].trace.writes = 0

\* C15: a link-wallet request whose signature the verify call rejects is
\* answered with InvalidSignature (401) and changes nothing in the
\* collection: a wallet linked before stays, no record is created.
C15_InvalidSignatureChangesNothing ==
  /\ [](LinkWithAllFields /\ sent[1].about[1].verifyCalls = 1
          /\ ~SignatureVerifies(sent[1].about[1].input) =>
            /\ sent[1].status = 401 /\ sent[1].error = InvalidSignature
            /\ sent[1].trace.writes = 0)
  /\ [][(sent' # Absent /\ sent'[1].op = "link" /\ sent'[1].status = 401) =>
          appdata' = appdata]_vars

\* such a request for an identity that has no record: none is created
C15_Witness ==
  /\ SentIs("link") /\ sent[1].status = 401
  /\ sent[1].about[1].verifyCalls = 1
  /\ ~appdata[sent[1].anonId].exists

\* what the middleware did for a request: the cookie it carried, the
\* identity it got, the cookie set on its response
ResolvedAs(cookie, anonId, setCookie) ==
  /\ setCookie # Absent => cookie = ""
  /\ cookie # "" => anonId = cookie /\ setCookie = Absent
  /\ cookie = "" => setCookie = Some(anonId) /\ anonId \in issued

\* C16: the anon_id cookie is set on a response only when the request
\* carried none, and then to the identity of the request; a request that
\* carries an anon_id is handled under exactly that value and gets no cookie.
C16_CookieSetOnlyWhenAbsent ==
  /\ sent # Absent =>
       ResolvedAs(sent[1].cookie, sent[1].anonId, sent[1].setCookie)
  /\ \A s \in Slots :
       InFlight(s) =>
         ResolvedAs(ctx[s].cookie, ctx[s].anonId, ctx[s].setCookie)

\* a client that returns the cookie it was given is answered under the same
\* identity, with no new cookie, after its first request stored data
C16_Witness ==
  /\ sent # Absent /\ sent[1].cookie \in issued
  /\ sent[1].anonId = sent[1].cookie /\ sent[1].setCookie = Absent
  /\ appdata[sent[1].anonId].exists

\* C17: a request is handled under the token it presents only if the token
\* is well-formed; for a token that is not, a new one is issued and set. So
\* every identity a request is handled under is a token the server issued.
C17_OnlyWellFormedTokensAccepted ==
  sent # Absent =>
    /\ (sent[1].cookie # "" /\ ~WellFormed(sent[1].cookie)) =>
         /\ sent[1].anonId # sent[1].cookie
         /\ sent[1].setCookie = Some(sent[1].anonId)
    /\ WellFormed(sent[1].anonId) /\ sent[1].anonId \in issued

\* C18: the step that handles a PUT /api/data leaves walletAddress,
\* achievementsEarned and achievementsMinted of every record as they were,
\* and the records of other identities untouched, whatever fields the body
\* carries.
C18_PutLeavesWalletAndAchievements ==
  [][(sent' # Absent /\ sent'[1].op = "PUT") =>
       \A id \in Identities :
         /\ appdata'[id].walletAddress = appdata[id].walletAddress
         /\ appdata'[id].achievementsEarned = appdata[id].achievementsEarned
         /\ appdata'[id].achievementsMinted = appdata[id].achievementsMinted
         /\ id # sent'[1].anonId => appdata'[id] = appdata[id]]_vars

\* a PUT whose body carries walletAddress and achievement lists was stored
\* for a record that has a linked wallet and a minted achievement
C18_Witness ==
  /\ SentIs("PUT") /\ sent[1].status = 200 /\ sent[1].trace.writes = 1
  /\ sent[1].about[1].body.walletAddress # Absent
  /\ sent[1].about[1].body.achievementsMinted # Absent
  /\ appdata[sent[1].anonId].walletAddress = Some("pkA")
  /\ StoredMinted(sent[1].anonId) # <<>>
  /\ appdata[sent[1].anonId].achievementsEarned # Absent

\* the stored minted ids that the write of the GET just answered removed
\* although the GET computed them as earned
LostEarned ==
  sent[1].about[1].lost \cap Range(sent[1].body[1].achievementsEarned)

\* C19: the write of a GET /api/data stores the minted list the GET computed
\* from the record it loaded, whatever the record holds by then; it removes
\* an id that the GET itself computed as earned only when another request
\* overlapped the GET; and a mint request for an id that is missing from the
\* persisted list is not refused with AlreadyMinted.
C19_PruneOverwritesConcurrentMint ==
  /\ (SentIs("GET") /\ sent[1].status = 200 /\ sent[1].trace.writes = 1) =>
       /\ appdata[sent[1].anonId].achievementsMinted
            = Some(PruneMinted(sent[1].about[1].storedMinted,
                               sent[1].body[1].achievementsEarned))
       /\ LostEarned # {} => sent[1].about[1].overlapped
  /\ \A id \in Identities : \A a \in Range(ACHIEVEMENTS) :
       ~Includes(StoredMinted(id), a) =>
         MintGate(appdata[id], a, mintBackend).error # AlreadyMinted

\* the interleaving: a GET loaded the record, a mint recorded its id, the GET
\* wrote its list; the id was minted, is still earned, is missing from the
\* persisted list, and a new mint request for it would pass every check
C19_Witness ==
  /\ SentIs("GET") /\ sent[1].status = 200 /\ sent[1].trace.writes = 1
  /\ sent[1].about[1].mixed
  /\ \E a \in LostEarned :
       /\ <<sent[1].anonId, a>> \in mintLog
       /\ Includes(EarnedOfDoc(appdata[sent[1].anonId]), a)
       /\ ~Includes(StoredMinted(sent[1].anonId), a)
       /\ MintGate(appdata[sent[1].anonId], a, "ok").status = 0

\* the GET just answered and the GET answered before it ran at the same
\* time as other GETs only
ConcurrentGets ==
  /\ GetAfterGet
  /\ sent[1].about[1].overlapped /\ ~sent[1].about[1].mixed
  /\ lastGet[1].overlapped /\ ~lastGet[1].mixed

\* C20: when GET /api/data requests of one identity run concurrently with no
\* other kind of request, their responses carry the same diet, activity,
\* goals, achievementsEarned and achievementsMinted, and the record is left
\* as one GET alone leaves it: holding the returned lists if any of them
\* wrote, and with nothing for a further GET to write.
C20_ConcurrentGetsAgree ==
  ConcurrentGets =>
    /\ sent[1].body[1].diet = lastGet[1].body.diet
    /\ sent[1].body[1].activity = lastGet[1].body.activity
    /\ sent[1].body[1].goals = lastGet[1].body.goals
    /\ sent[1].body[1].achievementsEarned = lastGet[1].body.achievementsEarned
    /\ sent[1].body[1].achievementsMinted = lastGet[1].body.achievementsMinted
    /\ (sent[1].trace.writes = 1 \/ lastGet[1].writes = 1) => WroteSnapshot
    /\ LET doc == appdata[sent[1].anonId]
       IN  /\ DataBody(doc) = sent[1].body[1]
           /\ ~NeedsReconcileWrite(doc,
                  FieldOr(doc.achievementsMinted, <<>>),
                  DataBody(doc).achievementsEarned,
                  DataBody(doc).achievementsMinted)

\* both GETs wrote: the second write was redundant
C20_Witness ==
  /\ ConcurrentGets
  /\ sent[1].trace.writes = 1 /\ lastGet[1].writes = 1
  /\ sent[1].body[1].achievementsEarned # <<>>
  /\ \A s \in Slots : ~InFlight(s)

\* computeAchievementsEarned has returned
Returned == probe # Absent /\ probe[1].earned # Absent

\* the returned array holds the achievement
Earns(a) == Includes(probe[1].earned[1], a)

\* C21: whenever computeAchievementsEarned returns streak_7 it also returns
\* streak_3.
C21_Streak7ImpliesStreak3 ==
  Returned => (Earns("streak_7") => Earns("streak_3"))

\* a call that returns streak_7, for eight logged dates
C21_Witness ==
  /\ Returned /\ Earns("streak_7")
  /\ Cardinality(DOMAIN probe[1].input.diet
                   \cup DOMAIN probe[1].input.activity) = 8

\* the entries of a mapping, as (date, position) pairs
EntriesOf(m) ==
  UNION {{<<d, i>> : i \in DOMAIN m[d]} : d \in DOMAIN m}

\* C22: computeAchievementsEarned returns first_food iff the diet mapping
\* holds at least one entry over all its dates, first_activity iff the
\* activity mapping holds at least one, ten_activities iff it holds at least
\* ten, however the entries are spread over the dates.
C22_CountAchievements ==
  Returned =>
    /\ Earns("first_food") <=> Cardinality(EntriesOf(probe[1].input.diet)) > 0
    /\ Earns("first_activity")
         <=> Cardinality(EntriesOf(probe[1].input.activity)) > 0
    /\ Earns("ten_activities")
         <=> Cardinality(EntriesOf(probe[1].input.activity)) >= TenActivities

\* exactly ten sessions, two on each of five dates
C22_Witness ==
  /\ Returned /\ Earns("ten_activities")
  /\ Cardinality(DOMAIN probe[1].input.activity) = 5
  /\ Cardinality(EntriesOf(probe[1].input.activity)) = TenActivities

\* food or activity was logged on day d
LoggedOn(d) ==
  \/ EntryCount(probe[1].input.diet, d) > 0
  \/ EntryCount(probe[1].input.activity, d) > 0

\* food or activity was logged on n calendar days in a row, the last of them
\* being the most recent logged day
DaysInARow(n) ==
  \E last \in 1 .. MaxDay :
    /\ LoggedOn(last)
    /\ \A d \in 1 .. MaxDay : d > last => ~LoggedOn(d)
    /\ \A k \in 0 .. n - 1 : last - k >= 1 /\ LoggedOn(last - k)

\* C23: streak_3 is returned only when food or activity was logged on 3
\* consecutive calendar days ending at the most recent logged date, streak_7
\* only for 7 such days; logged dates with calendar days between them that
\* are in neither mapping form no streak.
C23_StreakNeedsCalendarRun ==
  Returned =>
    /\ Earns("streak_3") => DaysInARow(StreakThreshold3)
    /\ Earns("streak_7") => DaysInARow(StreakThreshold7)

\* the dates of a mapping that hold at least one entry
DatesWithEntries(m) == {d \in DOMAIN m : Len(m[d]) > 0}

\* C24: whatever the goals are (0 included), protein_goal_5 and
\* calorie_goal_5 are returned only when at least 5 dates of the diet mapping
\* hold an entry, activity_goal_5 only when at least 5 dates of the activity
\* mapping do: a date with an empty list counts for none of them.
C24_EmptyDatesNeverCount ==
  Returned =>
    /\ Earns("protein_goal_5") =>
         Cardinality(DatesWithEntries(probe[1].input.diet)) >= GoalDays
    /\ Earns("calorie_goal_5") =>
         Cardinality(DatesWithEntries(probe[1].input.diet)) >= GoalDays
    /\ Earns("activity_goal_5") =>
         Cardinality(DatesWithEntries(probe[1].input.activity)) >= GoalDays

\* C25: after a successful GET /api/data that no other request overlapped,
\* for an identity that has a record, the persisted achievementsEarned is the
\* achievementsEarned the GET returned.
C25_StoredEarnedIsReturnedEarned ==
  (SentIs("GET") /\ sent[1].status = 200 /\ ~sent[1].about[1].overlapped
     /\ appdata[sent[1].anonId].exists) =>
    appdata[sent[1].anonId].achievementsEarned
      = Some(sent[1].body[1].achievementsEarned)

\* C26: a mint request with a wallet linked that directly follows a GET
\* /api/data whose response listed the achievement in achievementsEarned and
\* not in achievementsMinted is not refused with NotEarned.
C26_ListedAchievementIsMintable ==
  (SentIs("mint") /\ sent[1].about # Absent
     /\ sent[1].about[1].walletLinked /\ sent[1].about[1].listedByLastGet) =>
    sent[1].error # NotEarned

\* C27: mint requests of one identity for the same achievement never both
\* get a successful return of the mint collaborator: no state has two
\* requests for the same identity and achievement that are both past a
\* resolved mintNft call (while both are in flight no GET can have pruned the
\* achievement between them).
C27_AtMostOneSuccessfulMint ==
  \A s, t \in Slots :
    (s # t /\ ctx[s].pc = "mint_updateOne" /\ ctx[t].pc = "mint_updateOne"
       /\ ctx[s].anonId = ctx[t].anonId) =>
      ctx[s].achievementId # ctx[t].achievementId

\* a mint request arrives in this step and is answered before its first await
\* resolves into a collaborator call
MintAnsweredAtStart ==
  /\ sent = Absent /\ sent' # Absent /\ sent'[1].op = "mint"
  /\ \A s \in Slots : ctx[s].pc \notin {"mint_mintNft", "mint_updateOne"}
                          \/ ctx'[s] = ctx[s]

\* a mint request arrives in slot s in this step and goes on to call mintNft
MintProceeds(s) == ctx[s].pc = "idle" /\ ctx'[s].pc = "mint_mintNft"

\* C28 as amended: a successful disconnect-wallet removes walletAddress and leaves
\* diet, activity, goals, goalStory, achievementsEarned and achievementsMinted
\* unchanged; a walletAddress appears on a record only by a successful
\* link-wallet; and while the record of an identity has no walletAddress,
\* every mint request that starts for it fails, calls no mint collaborator
\* and changes nothing, with the wallet-not-linked error whenever the request
\* carries an achievementId and its record was loaded.
C28_DisconnectBlocksMintUntilLink ==
  [][ /\ (sent = Absent /\ sent' # Absent /\ sent'[1].op = "disconnect"
            /\ sent'[1].status = 200) =>
          LET id == sent'[1].anonId
          IN  /\ appdata'[id].walletAddress = Absent
              /\ appdata'[id] = [appdata[id] EXCEPT
                                   !.walletAddress = Absent,
                                   !.updatedAt = appdata'[id].updatedAt]
      /\ \A id \in Identities :
            (appdata[id].walletAddress = Absent
               /\ appdata'[id].walletAddress # Absent) =>
              /\ sent' # Absent /\ sent'[1].op = "link"
              /\ sent'[1].status = 200 /\ sent'[1].anonId = id
      /\ \A s \in Slots :
            MintProceeds(s) => appdata[ctx'[s].anonId].walletAddress # Absent
      /\ (MintAnsweredAtStart
            /\ appdata[sent'[1].anonId].walletAddress = Absent) =>
          /\ sent'[1].status >= 400
          /\ sent'[1].trace.mintCalls = 0
          /\ appdata' = appdata /\ mintLog' = mintLog
          /\ sent'[1].about # Absent => sent'[1].error = WalletNotLinked
    ]_vars

\* a mint request for an earned, not yet minted achievement, with the mint
\* backend configured, is refused for the missing wallet on a record that
\* still holds a minted achievement (the wallet was linked, used for a mint
\* and disconnected)
C28_Witness ==
  /\ SentIs("mint") /\ sent[1].about # Absent
  /\ sent[1].error = WalletNotLinked
  /\ sent[1].about[1].earnedNow /\ ~sent[1].about[1].alreadyMinted
  /\ sent[1].about[1].backendOk
  /\ StoredMinted(sent[1].anonId) # <<>>
  /\ appdata[sent[1].anonId].walletAddress = Absent

\* C28 as stated, on records that hold a minted achievement and no
\* walletAddress (so a disconnect-wallet succeeded after the last successful
\* link-wallet): every mint request that starts fails with the
\* wallet-not-linked error.
C28_AsStated ==
  [][ (MintAnsweredAtStart
         /\ appdata[sent'[1].anonId].walletAddress = Absent
         /\ StoredMinted(sent'[1].anonId) # <<>>) =>
        sent'[1].error = WalletNotLinked
    ]_vars

\* the loaded record of the answered GET made a reconciliation write necessary
WriteRequired ==
  \/ PrunedSome
  \/ /\ sent[1].about[1].hadRecord
     /\ ~sent[1].about[1].hadEarned \/ ~sent[1].about[1].hadMinted

\* C29: a GET /api/data that has to make a reconciliation write sends nothing
\* before that write has resolved; when the write fails the response is an
\* error without the data payload, and a successful response of a GET that
\* needed the write is only sent with the write done.
C29_FailedReconcileWriteFailsTheRead ==
  /\ [](SentIs("GET") /\ sent[1].status = 200 /\ WriteRequired
          => sent[1].trace.writes = 1)
  /\ [][ \A s \in Slots :
           /\ (ctx[s].pc = "idle" /\ ctx'[s].pc = "get_updateOne") =>
                 sent' = Absent
           /\ (ctx[s].pc = "get_updateOne" /\ ctx'[s].pc = "idle") =>
                 /\ sent' # Absent /\ sent'[1].op = "GET"
                 /\ IF sent'[1].trace.writes = 0
                    THEN /\ sent'[1].status = 500 /\ sent'[1].error # ""
                         /\ sent'[1].body = NoBody
                         /\ appdata' = appdata
                    ELSE /\ sent'[1].status = 200
                         /\ appdata'[sent'[1].anonId].achievementsMinted
                              = Some(sent'[1].body[1].achievementsMinted)
      ]_vars

\* the write that would have pruned a stored minted achievement failed: the
\* answer is the error and the record still holds the achievement
C29_Witness ==
  /\ SentIs("GET") /\ sent[1].status = 500
  /\ sent[1].about[1].hadRecord
  /\ sent[1].about[1].storedMinted # <<>>
  /\ StoredMinted(sent[1].anonId) = sent[1].about[1].storedMinted
  /\ ~Includes(EarnedOfDoc(appdata[sent[1].anonId]),
               sent[1].about[1].storedMinted[1])

\* a GET /api/data arrives in this step and is answered with the payload at once
GetAnsweredAtStart ==
  /\ sent = Absent /\ sent' # Absent /\ sent'[1].op = "GET"
  /\ sent'[1].status = 200
  /\ \A s \in Slots : ctx[s].pc = "get_updateOne" => ctx'[s].pc = "get_updateOne"

\* the payload shows no entries, nothing earned and nothing minted
EmptyPayload(body) ==
  /\ body.diet = EmptyMap /\ body.activity = EmptyMap
  /\ body.achievementsEarned = <<>> /\ body.achievementsMinted = <<>>

\* C30: a successful PUT /api/data stores all four of diet, activity, goals and
\* goalStory, with the default {}, {}, null, "" for each one the body omits;
\* and a GET that reads a record whose diet and activity are the empty
\* defaults (as after a PUT carrying only goals) returns empty diet and
\* activity and an empty achievementsMinted, whatever was minted before.
C30_PutReplacesAllFourFields ==
  [][ /\ (sent = Absent /\ sent' # Absent /\ sent'[1].op = "PUT"
            /\ sent'[1].status = 200) =>
          LET id == sent'[1].anonId
              body == sent'[1].about[1].body
          IN  /\ appdata'[id].diet
                   = Some(IF body.diet = Absent THEN EmptyMap ELSE body.diet[1])
              /\ appdata'[id].activity
                   = Some(IF body.activity = Absent THEN EmptyMap
                          ELSE body.activity[1])
              /\ appdata'[id].goals
                   = Some(IF body.goals = Absent THEN JsNull ELSE body.goals[1])
              /\ appdata'[id].goalStory
                   = Some(IF body.goalStory = Absent THEN ""
                          ELSE body.goalStory[1])
      /\ (GetAnsweredAtStart
            /\ appdata[sent'[1].anonId].diet = Some(EmptyMap)
            /\ appdata[sent'[1].anonId].activity = Some(EmptyMap)) =>
          EmptyPayload(sent'[1].body[1])
      /\ \A s \in Slots :
            (ctx[s].pc = "idle" /\ ctx'[s].pc = "get_updateOne"
               /\ appdata[ctx'[s].anonId].diet = Some(EmptyMap)
               /\ appdata[ctx'[s].anonId].activity = Some(EmptyMap)) =>
              EmptyPayload(ctx'[s].body)
    ]_vars

\* a PUT carrying only goals succeeded on a record that holds a minted
\* achievement: the stored diet and activity are now empty
C30_Witness ==
  /\ SentIs("PUT") /\ sent[1].status = 200
  /\ sent[1].about[1].body.diet = Absent
  /\ sent[1].about[1].body.activity = Absent
  /\ sent[1].about[1].body.goals # Absent
  /\ StoredMinted(sent[1].anonId) # <<>>
  /\ appdata[sent[1].anonId].diet = Some(EmptyMap)
  /\ appdata[sent[1].anonId].activity = Some(EmptyMap)

====
